---- MODULE Spec2Model ----
(***************************************************************************)
(* Model of btc_bot.py: the price-watch-and-buy loop main(), the two       *)
(* exchange wrappers get_current_price and place_limit_buy, and the        *)
(* fixed-precision rendering of the order request.                         *)
(*                                                                         *)
(* Numbers.  A Python float is modelled by an exact rational [n, d] with   *)
(* d > 0.  The inputs of the model are chosen so that the rational result  *)
(* and the IEEE double result of the same expression render to the same    *)
(* decimal string (the only ties that occur are dyadic, hence exact).      *)
(* Strings that the code parses or renders are sequences of one-character  *)
(* strings.  Python's None is the sentinel None; a dict is a function      *)
(* whose DOMAIN is the set of its keys.                                    *)
(*                                                                         *)
(* Time.  time.time() is the variable now, in whole seconds.  It only      *)
(* moves forward.  The program reads it at lines 136 and 144 only, so the  *)
(* model lets it advance between these reads: in the order call (between   *)
(* 136 and 144) and in the sleep, which also accounts for the time the     *)
(* following price fetch takes (between 144 or 136 and the next 136).      *)
(***************************************************************************)
EXTENDS Integers, Sequences, FiniteSets, TLC

\* ---------------------------------------------------------------------
\* Configuration constants (btc_bot.py lines 12-16)
\* ---------------------------------------------------------------------
TARGET_PRICE == 90000

USD_TO_SPEND == 100

POLL_INTERVAL == 10

PRODUCT_ID == "BTC-USD"

BUY_COOLDOWN == 604800

\* ---------------------------------------------------------------------
\* Bounds of the model
\* ---------------------------------------------------------------------
\* number of loop iterations that are explored
MaxIter == 2

\* ---------------------------------------------------------------------
\* Python values
\* ---------------------------------------------------------------------
None == "<None>"

EmptyDict == [k \in {} |-> None]

\* bool(v) for the str-or-None values the code tests with "if order_id:"
Truthy(v) == v # None /\ v # ""

\* a float as an exact rational
Rat(n, d) == [n |-> n, d |-> d]

\* a <= b on floats
RatLE(a, b) == a.n * b.d <= b.n * a.d

\* a / b on floats (b > 0)
RatDiv(a, b) == Rat(a.n * b.d, a.d * b.n)

DigitChars == <<"0", "1", "2", "3", "4", "5", "6", "7", "8", "9">>

DigitSet == {DigitChars[i] : i \in 1..10}

DigitVal(c) == CHOOSE i \in 0..9 : DigitChars[i + 1] = c

RECURSIVE Pow10(_)
Pow10(k) == IF k = 0 THEN 1 ELSE 10 * Pow10(k - 1)

\* ---------------------------------------------------------------------
\* float(s): parsing of a decimal literal  (get_current_price, line 86)
\* The literals float() accepts that the model covers are
\*   digit+ [ "." digit* ]      everything else raises ValueError.
\* ---------------------------------------------------------------------
RECURSIVE DigitsValue(_)
DigitsValue(s) ==
    IF s = << >> THEN 0
    ELSE 10 * DigitsValue(SubSeq(s, 1, Len(s) - 1)) + DigitVal(s[Len(s)])

AllDigits(s) == \A i \in 1..Len(s) : s[i] \in DigitSet

DotPositions(s) == {i \in 1..Len(s) : s[i] = "."}

IsFloatLiteral(s) ==
    \/ Len(s) > 0 /\ AllDigits(s)
    \/ /\ Cardinality(DotPositions(s)) = 1
       /\ LET p == CHOOSE i \in DotPositions(s) : TRUE
          IN  /\ p > 1
              /\ AllDigits(SubSeq(s, 1, p - 1))
              /\ AllDigits(SubSeq(s, p + 1, Len(s)))

ParseFloat(s) ==
    IF DotPositions(s) = {} THEN Rat(DigitsValue(s), 1)
    ELSE LET p    == CHOOSE i \in DotPositions(s) : TRUE
             ip   == SubSeq(s, 1, p - 1)
             fp   == SubSeq(s, p + 1, Len(s))
         IN  Rat(DigitsValue(ip) * Pow10(Len(fp)) + DigitsValue(fp),
                 Pow10(Len(fp)))

\* ---------------------------------------------------------------------
\* f"{x:.<k>f}": fixed-point rendering with k fractional digits, rounded
\* to nearest, ties to even  (place_limit_buy, lines 104-105)
\* ---------------------------------------------------------------------
RECURSIVE IntDigits(_)
IntDigits(v) ==
    IF v < 10 THEN <<DigitChars[v + 1]>>
    ELSE Append(IntDigits(v \div 10), DigitChars[(v % 10) + 1])

\* long division: the first k fractional digits of r/d (r < d) and the
\* remainder that is left
RECURSIVE FracDigs(_, _, _)
FracDigs(r, d, k) ==
    IF k = 0 THEN << >>
    ELSE <<DigitChars[((r * 10) \div d) + 1]>> \o FracDigs((r * 10) % d, d, k - 1)

RECURSIVE FracRem(_, _, _)
FracRem(r, d, k) == IF k = 0 THEN r ELSE FracRem((r * 10) % d, d, k - 1)

FracDigits(r, d, k) == [digs |-> FracDigs(r, d, k), rem |-> FracRem(r, d, k)]

\* add one unit in the last place to a digit string
RECURSIVE Increment(_)
Increment(s) ==
    IF s = << >> THEN <<"1">>
    ELSE IF s[Len(s)] = "9"
         THEN Append(Increment(SubSeq(s, 1, Len(s) - 1)), "0")
         ELSE Append(SubSeq(s, 1, Len(s) - 1), DigitChars[DigitVal(s[Len(s)]) + 2])

\* the same rendering without the rounding step
FormatFixedTrunc(x, k) ==
    LET ip  == IntDigits(x.n \div x.d)
        fr  == FracDigits(x.n % x.d, x.d, k)
        all == ip \o fr.digs
        cut == Len(all) - k
    IN  IF k = 0 THEN all
        ELSE SubSeq(all, 1, cut) \o <<".">> \o SubSeq(all, cut + 1, Len(all))

FormatFixed(x, k) ==
    LET ip      == IntDigits(x.n \div x.d)
        fr      == FracDigits(x.n % x.d, x.d, k)
        all     == ip \o fr.digs
        lastOdd == DigitVal(all[Len(all)]) % 2 = 1
        up      == \/ 2 * fr.rem > x.d
                   \/ 2 * fr.rem = x.d /\ lastOdd
        rounded == IF up THEN Increment(all) ELSE all
        cut     == Len(rounded) - k
    IN  IF k = 0 THEN rounded
        ELSE SubSeq(rounded, 1, cut) \o <<".">> \o SubSeq(rounded, cut + 1, Len(rounded))

\* ---------------------------------------------------------------------
\* The exchange client (coinbase.rest.RESTClient), the environment of the
\* program: what a call can answer
\* ---------------------------------------------------------------------
Chars5(a, b, c, d, e) == <<a, b, c, d, e>>

QuoteStrings ==
    { Chars5("8", "5", "0", "0", "0"),
      Chars5("9", "0", "0", "0", "0"),
      Chars5("9", "0", "0", "0", "0") \o <<".", "0", "1">>,
      Chars5("9", "5", "0", "0", "0"),
      <<"a", "b", "c">> }

\* client.get_product(product_id): raises, or returns a dict that has a
\* "price" entry or has none
ProductResponses ==
    {[raises |-> TRUE, body |-> EmptyDict]}
    \cup {[raises |-> FALSE, body |-> EmptyDict]}
    \cup {[raises |-> FALSE, body |-> [price |-> q]] : q \in QuoteStrings}

\* client.limit_order_gtc_buy(...): raises (before or after the exchange
\* accepted the order), or returns a dict
OrderBodies ==
    { [success |-> TRUE, success_response |-> [order_id |-> "order-123"]],
      [success |-> TRUE, success_response |-> [order_id |-> ""]],
      [success |-> TRUE, success_response |-> [order_id |-> None]],
      [success |-> TRUE, success_response |-> EmptyDict],
      [success |-> TRUE],
      [success |-> FALSE, error_response |-> [message |-> "Insufficient funds"]],
      EmptyDict }

\* order.get("success")
OrderSuccess(body) == "success" \in DOMAIN body /\ body["success"] = TRUE

OrderResponses ==
    {[raises |-> TRUE, accepted |-> a, body |-> EmptyDict] : a \in BOOLEAN}
    \cup {[raises |-> FALSE, accepted |-> OrderSuccess(b), body |-> b] : b \in OrderBodies}

\* seconds client.limit_order_gtc_buy takes
NetDelays == {0, 1}

\* seconds by which time.sleep(POLL_INTERVAL) and the price fetch after it
\* exceed POLL_INTERVAL (the process may be suspended)
SleepExtras == {0, BUY_COOLDOWN - POLL_INTERVAL - 1, BUY_COOLDOWN - POLL_INTERVAL}

\* time.time() when main() starts
StartClocks == {BUY_COOLDOWN - 1, 1700000000}

\* ---------------------------------------------------------------------
\* get_current_price  (lines 82-86)
\* ---------------------------------------------------------------------
Raise(kind) == [raised |-> TRUE, exc |-> kind, ret |-> Rat(0, 1)]

get_current_price_Default(resp) ==
    IF resp.raises THEN Raise("ClientError")
    ELSE IF "price" \notin DOMAIN resp.body
    THEN [raised |-> FALSE, exc |-> None, ret |-> Rat(0, 1)]
    ELSE IF ~IsFloatLiteral(resp.body["price"]) THEN Raise("ValueError")
    ELSE [raised |-> FALSE, exc |-> None, ret |-> ParseFloat(resp.body["price"])]

get_current_price(resp) ==
    IF resp.raises THEN Raise("ClientError")
    ELSE IF "price" \notin DOMAIN resp.body THEN Raise("KeyError")
    ELSE IF ~IsFloatLiteral(resp.body["price"]) THEN Raise("ValueError")
    ELSE [raised |-> FALSE, exc |-> None, ret |-> ParseFloat(resp.body["price"])]

\* ---------------------------------------------------------------------
\* place_limit_buy  (lines 89-118)
\* ---------------------------------------------------------------------
\* line 93, uuid.uuid4(): a random 122-bit value.  The model takes the
\* values drawn in one run to be pairwise different: the value of the
\* (drawn + 1)-th draw is named by its number.
uuid4Once(drawn) == 1

uuid4(drawn) == drawn + 1

\* lines 92-106: the keyword arguments of client.limit_order_gtc_buy
OrderRequest(spend, limit_price, token) ==
    LET base_size == RatDiv(spend, limit_price)
    IN  [client_order_id |-> token,
         product_id      |-> PRODUCT_ID,
         base_size       |-> FormatFixed(base_size, 8),
         limit_price     |-> FormatFixed(limit_price, 2)]

\* lines 101-118: what place_limit_buy does with the client's answer
place_limit_buy_ReturnsError(resp) ==
    IF resp.raises THEN [raised |-> TRUE, exc |-> "ClientError", ret |-> None]
    ELSE IF OrderSuccess(resp.body)
         THEN IF "success_response" \notin DOMAIN resp.body
                 \/ "order_id" \notin DOMAIN resp.body["success_response"]
              THEN [raised |-> TRUE, exc |-> "KeyError", ret |-> None]
              ELSE [raised |-> FALSE, exc |-> None,
                    ret |-> resp.body["success_response"]["order_id"]]
         ELSE [raised |-> FALSE, exc |-> None, ret |-> "error_response"]

place_limit_buy(resp) ==
    IF resp.raises THEN [raised |-> TRUE, exc |-> "ClientError", ret |-> None]
    ELSE IF OrderSuccess(resp.body)
         THEN IF "success_response" \notin DOMAIN resp.body
                 \/ "order_id" \notin DOMAIN resp.body["success_response"]
              THEN [raised |-> TRUE, exc |-> "KeyError", ret |-> None]
              ELSE [raised |-> FALSE, exc |-> None,
                    ret |-> resp.body["success_response"]["order_id"]]
         ELSE [raised |-> FALSE, exc |-> None, ret |-> None]

\* ---------------------------------------------------------------------
\* Credentials: load_credentials_from_json (lines 20-49) and get_client
\* (lines 52-79)
\* ---------------------------------------------------------------------
\* a str value, and None (an unset environment variable)
Str(chars) == [t |-> "str", v |-> chars]

Unset == [t |-> "none", v |-> << >>]

\* bool(x) of a str-or-None value (lines 65, 71, 46)
PyTruthy(x) == x.t = "str" /\ x.v # << >>

Whitespace == {" ", "\n", "\t"}

\* str.strip()
RECURSIVE StripLeft(_)
StripLeft(s) ==
    IF s # << >> /\ s[1] \in Whitespace THEN StripLeft(Tail(s)) ELSE s

RECURSIVE StripRight(_)
StripRight(s) ==
    IF s # << >> /\ s[Len(s)] \in Whitespace
    THEN StripRight(SubSeq(s, 1, Len(s) - 1)) ELSE s

Strip(s) == StripRight(StripLeft(s))

\* str.replace("\\n", "\n"): backslash followed by n becomes a newline
RECURSIVE UnescapeNewlines(_)
UnescapeNewlines(s) ==
    IF s = << >> THEN << >>
    ELSE IF Len(s) >= 2 /\ s[1] = "\\" /\ s[2] = "n"
    THEN <<"\n">> \o UnescapeNewlines(SubSeq(s, 3, Len(s)))
    ELSE <<s[1]>> \o UnescapeNewlines(Tail(s))

\* the file COINBASE_API_JSON_PATH names:
\*   kind  "absent", "unreadable" (read_text raises), "not_json" (json.loads
\*         raises), "json_other" (JSON, but not an object), "json_object"
\*   data  the object, a dict from field names to str values
File(kind, data) == [kind |-> kind, data |-> data]

KeyChars == <<"k", "e", "y">>

PemChars == <<"P", "E", "M", "\\", "n", "x", "\n">>

CredentialFiles ==
    { File("absent", EmptyDict),
      File("unreadable", EmptyDict),
      File("not_json", EmptyDict),
      File("json_other", EmptyDict),
      File("json_object", EmptyDict),
      File("json_object", [name |-> Str(KeyChars)]),
      File("json_object", [id |-> Str(KeyChars)]),
      File("json_object", [privateKey |-> Str(PemChars)]),
      File("json_object", [name |-> Str(KeyChars), privateKey |-> Str(PemChars)]),
      File("json_object", [id |-> Str(<< >>), privateKey |-> Str(PemChars)]),
      File("json_object", [id |-> Str(KeyChars), privateKey |-> Str(<<" ", "\n">>)]),
      File("json_object", [id |-> Str(<<" ">> \o KeyChars), privateKey |-> Str(PemChars)]),
      File("json_object", [id |-> Str(<<"i", "d">>), name |-> Str(KeyChars),
                           privateKey |-> Str(PemChars)]) }

EnvValues == {Unset, Str(<< >>), Str(<<" ">>), Str(<<"e", "n", "v">>)}

\* os.environ after load_dotenv(), and the file the path names
Environment(json_path, file, key, secret) ==
    [COINBASE_API_JSON_PATH |-> json_path, file |-> file,
     COINBASE_API_KEY |-> key, COINBASE_API_SECRET |-> secret]

EnvChars == <<"e", "n", "v">>

Environments ==
    {Environment(Str(<<"p">>), f, Unset, Unset) : f \in CredentialFiles}
    \cup {Environment(Str(<<"p">>), f, Str(EnvChars), Str(EnvChars)) :
            f \in {File("absent", EmptyDict),
                   File("json_object", [name |-> Str(KeyChars),
                                        privateKey |-> Str(PemChars)]),
                   File("json_object", [id |-> Str(<<" ">> \o KeyChars),
                                        privateKey |-> Str(PemChars)])}}
    \cup {Environment(Unset, File("absent", EmptyDict), k, sec) :
            k \in EnvValues, sec \in {Unset, Str(<< >>), Str(EnvChars)}}
    \cup {Environment(Str(<< >>), File("absent", EmptyDict), k, k) :
            k \in {Unset, Str(EnvChars)}}

\* what a call returns or raises
Credentials(key, secret) ==
    [raised |-> FALSE, exc |-> None, api_key |-> key, api_secret |-> secret]

CredentialError(kind) ==
    [raised |-> TRUE, exc |-> kind, api_key |-> << >>, api_secret |-> << >>]

\* lines 20-49
load_credentials_from_json_Unchecked(file) ==
    IF file.kind = "absent" THEN CredentialError("RuntimeError")
    ELSE IF file.kind \in {"unreadable", "not_json"}
    THEN CredentialError("RuntimeError")
    ELSE IF file.kind = "json_other" THEN CredentialError("TypeError")
    ELSE IF "id" \notin DOMAIN file.data \/ "privateKey" \notin DOMAIN file.data
    THEN Credentials(<< >>, << >>)
    ELSE Credentials(Strip(file.data["id"].v),
                     Strip(UnescapeNewlines(file.data["privateKey"].v)))

load_credentials_from_json(file) ==
    IF file.kind = "absent" THEN CredentialError("RuntimeError")
    ELSE IF file.kind \in {"unreadable", "not_json"}
    THEN CredentialError("RuntimeError")
    ELSE IF file.kind = "json_other" THEN CredentialError("TypeError")
    ELSE IF "id" \notin DOMAIN file.data \/ "privateKey" \notin DOMAIN file.data
    THEN CredentialError("RuntimeError")
    ELSE LET api_key    == Strip(file.data["id"].v)
             api_secret == Strip(UnescapeNewlines(file.data["privateKey"].v))
         IN  IF api_key = << >> \/ api_secret = << >>
             THEN CredentialError("RuntimeError")
             ELSE Credentials(api_key, api_secret)

\* lines 64-79; RESTClient(api_key=..., api_secret=...) is the result
get_client(e) ==
    IF PyTruthy(e.COINBASE_API_JSON_PATH)
    THEN load_credentials_from_json(e.file)
    ELSE IF ~PyTruthy(e.COINBASE_API_KEY) \/ ~PyTruthy(e.COINBASE_API_SECRET)
    THEN CredentialError("RuntimeError")
    ELSE Credentials(Strip(e.COINBASE_API_KEY.v),
                     Strip(UnescapeNewlines(e.COINBASE_API_SECRET.v)))

\* the environment of the runs that begin at the loop
LoopEnvironment ==
    Environment(Unset, File("absent", EmptyDict), Str(EnvChars), Str(EnvChars))

\* before get_client has returned
NoClient == Credentials(<< >>, << >>)

\* ---------------------------------------------------------------------
\* State
\* ---------------------------------------------------------------------
VARIABLES
    pc,             \* position of main(): "start", "aborted", "fetch", "gate",
                    \* "place", "sleep", "interrupted";
                    \* of a direct call: "call", "returned"
    env,            \* os.environ and the credential file
    client,         \* what get_client returned or raised, line 122
    now,            \* time.time()
    last_buy_time,  \* main's local, line 129
    price,          \* main's local, line 133
    iteration,      \* number of the current loop iteration
    cur,            \* what the current iteration has done so far
    prev,           \* what the previous iteration did
    orders,         \* the requests sent to limit_order_gtc_buy, in order
    fmtIn           \* arguments of a direct call of place_limit_buy

vars == <<pc, now, last_buy_time, price, iteration, cur, prev, orders, fmtIn,
          env, client>>

\* the record kept of one iteration
\*   fetches   calls of get_current_price
\*   reply     what client.get_product answered:
\*             "none", "raise", "no_price", "price"
\*   gate      the branch taken at lines 137-141:
\*             "none", "cooldown", "above", "hit"
\*   attempts  calls of place_limit_buy
\*   order     what client.limit_order_gtc_buy answered:
\*             "none", "raise", "success_id" (success with an order_id entry),
\*             "success_no_id" (success without one), "failure"
\*   ret       what place_limit_buy returned (None when it did not return)
\*   exc       the exception raised in the iteration (None when there was
\*             none)
FreshIter ==
    [fetches |-> 0, reply |-> "none", gate |-> "none",
     attempts |-> 0, order |-> "none", ret |-> None, exc |-> None]

ProductReplyKind(resp) ==
    IF resp.raises THEN "raise"
    ELSE IF "price" \in DOMAIN resp.body THEN "price" ELSE "no_price"

OrderReplyKind(resp) ==
    IF resp.raises THEN "raise"
    ELSE IF "success" \in DOMAIN resp.body /\ resp.body["success"] = TRUE
    THEN IF /\ "success_response" \in DOMAIN resp.body
            /\ "order_id" \in DOMAIN resp.body["success_response"]
         THEN "success_id" ELSE "success_no_id"
    ELSE "failure"

NoArgs == [spend |-> Rat(USD_TO_SPEND, 1), limit_price |-> Rat(TARGET_PRICE, 1)]

\* line 129, after get_client() has returned the client
Init ==
    /\ pc = "fetch"
    /\ now \in StartClocks
    /\ last_buy_time = 0
    /\ price = Rat(0, 1)         \* unbound until line 133 assigns it
    /\ iteration = 1
    /\ cur = FreshIter
    /\ prev = FreshIter
    /\ orders = << >>
    /\ fmtIn = NoArgs
    /\ env = LoopEnvironment
    /\ client = get_client(LoopEnvironment)

\* ---------------------------------------------------------------------
\* main(), one loop iteration = Fetch ; Gate ; [Place] ; Sleep
\* ---------------------------------------------------------------------
\* line 146: "except Exception" catches every exception the calls raise
\* except KeyboardInterrupt, which derives from BaseException only
CaughtAny(exc) == TRUE

Caught(exc) == exc # "KeyboardInterrupt"

\* lines 146-149: the handler prints and falls through to the sleep
AfterFetchErrorRetry(r) == "fetch"

AfterFetchError(r) == "sleep"

\* line 133 (and the handler of line 146 when it raises)
Fetch(resp) ==
    /\ pc = "fetch"
    /\ iteration <= MaxIter
    /\ LET r == get_current_price(resp)
       IN  IF r.raised
           THEN /\ pc' = AfterFetchError(r)
                /\ price' = price
                /\ cur' = [cur EXCEPT !.fetches = @ + 1, !.exc = r.exc,
                                       !.reply = ProductReplyKind(resp)]
           ELSE /\ pc' = "gate"
                /\ price' = r.ret
                /\ cur' = [cur EXCEPT !.fetches = @ + 1,
                                       !.reply = ProductReplyKind(resp)]
    /\ UNCHANGED <<now, last_buy_time, iteration, prev, orders, fmtIn, env, client>>

\* lines 136-141
OnCooldownNever(t, lbt) == FALSE

OnCooldownInclusive(t, lbt) == t - lbt <= BUY_COOLDOWN

OnCooldown(t, lbt) == t - lbt < BUY_COOLDOWN

TargetHitStrict(p) == ~RatLE(Rat(TARGET_PRICE, 1), p)

TargetHitAlways(p) == TRUE

TargetHit(p) == RatLE(p, Rat(TARGET_PRICE, 1))

Gate ==
    /\ pc = "gate"
    /\ LET time_since_last_buy == now - last_buy_time
       IN  IF OnCooldown(now, last_buy_time)
           THEN /\ pc' = "sleep"
                /\ cur' = [cur EXCEPT !.gate = "cooldown"]
           ELSE IF TargetHit(price)
           THEN /\ pc' = "place"
                /\ cur' = [cur EXCEPT !.gate = "hit"]
           ELSE /\ pc' = "sleep"
                /\ cur' = [cur EXCEPT !.gate = "above"]
    /\ UNCHANGED <<now, last_buy_time, price, iteration, prev, orders, fmtIn, env, client>>

\* line 142: the arguments main() passes to place_limit_buy
MainLimitPriceLive(p) == p

MainLimitPrice(p) == Rat(TARGET_PRICE, 1)

\* line 143-144: the new value of last_buy_time
NewLastBuyTimeNever(r, lbt, t) == lbt

NewLastBuyTimeAlways(r, lbt, t) == t

NewLastBuyTime(r, lbt, t) == IF ~r.raised /\ Truthy(r.ret) THEN t ELSE lbt

\* lines 143-149: after the attempt, whatever its outcome, control reaches
\* the sleep of line 149; the loop has no break and no return
AfterAttemptBreak(r) == IF ~r.raised /\ Truthy(r.ret) THEN "done" ELSE "sleep"

AfterAttempt(r) == "sleep"

\* lines 142-145 (and the handler of line 146 when place_limit_buy raises)
Place(resp, delay) ==
    /\ pc = "place"
    /\ LET req == OrderRequest(Rat(USD_TO_SPEND, 1), MainLimitPrice(price),
                               uuid4(Len(orders)))
           r   == place_limit_buy(resp)
       IN  /\ orders' = Append(orders,
                   [request |-> req, at |-> now, live |-> price,
                    accepted |-> resp.accepted])
           /\ now' = now + delay
           /\ last_buy_time' = NewLastBuyTime(r, last_buy_time, now')
           /\ cur' = [cur EXCEPT !.attempts = @ + 1, !.ret = r.ret, !.exc = r.exc,
                                  !.order = OrderReplyKind(resp)]
           /\ pc' = AfterAttempt(r)
    /\ UNCHANGED <<price, iteration, prev, fmtIn, env, client>>

\* line 149
Sleep(extra) ==
    /\ pc = "sleep"
    /\ now' = now + POLL_INTERVAL + extra
    /\ iteration' = iteration + 1
    /\ prev' = cur
    /\ cur' = FreshIter
    /\ pc' = "fetch"
    /\ UNCHANGED <<last_buy_time, price, orders, fmtIn, env, client>>

\* KeyboardInterrupt raised while main() is blocked in the price fetch or
\* the order call (inside the try of line 132) or in the sleep of line 149
\* (outside it)
Interrupt ==
    /\ pc \in {"fetch", "place", "sleep"}
    /\ iteration <= MaxIter
    /\ cur' = [cur EXCEPT !.exc = "KeyboardInterrupt"]
    /\ pc' = IF pc \in {"fetch", "place"} /\ Caught("KeyboardInterrupt")
             THEN "sleep" ELSE "interrupted"
    /\ UNCHANGED <<now, last_buy_time, price, iteration, prev, orders, fmtIn, env, client>>

Next ==
    \/ \E resp \in ProductResponses : Fetch(resp)
    \/ Gate
    \/ \E resp \in OrderResponses, delay \in NetDelays : Place(resp, delay)
    \/ \E extra \in SleepExtras : Sleep(extra)
    \/ Interrupt

Spec == Init /\ [][Next]_vars

\* ---------------------------------------------------------------------
\* main() from its first line: get_client, then the loop
\* ---------------------------------------------------------------------
MainStartClock == 1700000000

InitMain ==
    /\ pc = "start"
    /\ env \in Environments
    /\ client = NoClient
    /\ now = MainStartClock
    /\ last_buy_time = 0
    /\ price = Rat(0, 1)
    /\ iteration = 1
    /\ cur = FreshIter
    /\ prev = FreshIter
    /\ orders = << >>
    /\ fmtIn = NoArgs

\* line 122: an exception of get_client leaves main(); lines 124-129
Startup ==
    /\ pc = "start"
    /\ client' = get_client(env)
    /\ pc' = IF client'.raised THEN "aborted" ELSE "fetch"
    /\ UNCHANGED <<now, last_buy_time, price, iteration, cur, prev, orders,
                   fmtIn, env>>

NextMain == Startup \/ Next

SpecMain == InitMain /\ [][NextMain]_vars

\* ---------------------------------------------------------------------
\* place_limit_buy called directly, as the unit tests call it
\* (tests/test_btc_bot.py lines 95-136), for a range of arguments
\* ---------------------------------------------------------------------
FmtIntSpends == {1, 2, 3, 5, 7, 10}

FmtIntLimits == {1, 3, 7, 9, 64, 512, 1024, 85000, 90000, 100000}

\* limit prices with a fractional part (multiples of 1/8, exact as floats)
FmtEighthLimits == {Rat(1, 8), Rat(3, 8), Rat(5, 8), Rat(7, 8), Rat(19, 8),
                    Rat(797, 8), Rat(720001, 8), Rat(720003, 8),
                    Rat(799999, 8), Rat(7999, 8)}

FmtInputs ==
    {[spend |-> Rat(sp, 1), limit_price |-> Rat(l, 1)] :
        sp \in FmtIntSpends, l \in FmtIntLimits}
    \cup {[spend |-> Rat(1, 1), limit_price |-> l] : l \in FmtEighthLimits}
    \cup {[spend |-> Rat(USD_TO_SPEND, 1), limit_price |-> Rat(l, 1)] :
            l \in {85000, 90000, 100000}}

InitFmt ==
    /\ pc = "call"
    /\ fmtIn \in FmtInputs
    /\ now = 1700000000
    /\ last_buy_time = 0
    /\ price = Rat(0, 1)
    /\ iteration = 1
    /\ cur = FreshIter
    /\ prev = FreshIter
    /\ orders = << >>
    /\ env = LoopEnvironment
    /\ client = get_client(LoopEnvironment)

\* place_limit_buy(client, PRODUCT_ID, limit_price), lines 89-118, with
\* USD_TO_SPEND set to fmtIn.spend
CallPlaceLimitBuy(resp) ==
    /\ pc = "call"
    /\ LET req == OrderRequest(fmtIn.spend, fmtIn.limit_price, uuid4(Len(orders)))
           r   == place_limit_buy(resp)
       IN  /\ orders' = Append(orders,
                   [request |-> req, at |-> now, live |-> price,
                    accepted |-> resp.accepted])
           /\ cur' = [cur EXCEPT !.attempts = @ + 1, !.ret = r.ret, !.exc = r.exc,
                                  !.order = OrderReplyKind(resp)]
    /\ pc' = "returned"
    /\ UNCHANGED <<now, last_buy_time, price, iteration, prev, fmtIn, env, client>>

NextFmt == \E resp \in OrderResponses : CallPlaceLimitBuy(resp)

SpecFmt == InitFmt /\ [][NextFmt]_vars

TypeOK ==
    /\ pc \in {"start", "aborted", "fetch", "gate", "place", "sleep",
              "interrupted", "call", "returned"}
    /\ now \in Nat
    /\ last_buy_time \in Nat
    /\ iteration \in 1..(MaxIter + 1)
    /\ Len(orders) <= MaxIter

\* ---------------------------------------------------------------------
\* Properties
\* ---------------------------------------------------------------------
\* the price main() holds, compared with the target as the claims state it
PriceAtOrBelowTarget == price.n <= TARGET_PRICE * price.d

PriceBelowTarget == price.n < TARGET_PRICE * price.d

PriceAtTarget == price.n = TARGET_PRICE * price.d

\* time.time() - last_buy_time as line 136 reads it
Elapsed == now - last_buy_time

\* C1: in an iteration in which now - last_buy_time < BUY_COOLDOWN when the
\* gate is evaluated, place_limit_buy is not called, whatever the price is:
\* the iteration goes to its sleep without a request.
C1_NoOrderOnCooldown ==
    [][(pc = "gate" /\ Elapsed < BUY_COOLDOWN)
        => (pc' = "sleep" /\ orders' = orders /\ cur'.attempts = 0)]_vars

\* C1 witness: an iteration on cooldown after a buy, with a price at or
\* below the target, that reached its sleep without an attempt
C1_Witness ==
    /\ pc = "sleep" /\ cur.gate = "cooldown" /\ cur.attempts = 0
    /\ PriceAtOrBelowTarget /\ last_buy_time > 0 /\ Elapsed < BUY_COOLDOWN

\* C2: the comparison is inclusive: when the fetch succeeded, the loop is
\* not on cooldown and price <= TARGET_PRICE, place_limit_buy is called in
\* the same iteration (the call is the next thing the iteration does).
C2_InclusiveComparison ==
    [][/\ (pc = "gate" /\ Elapsed >= BUY_COOLDOWN /\ PriceAtOrBelowTarget)
            => pc' = "place"
       /\ (pc = "place" /\ pc' # "interrupted")
            => (cur'.attempts = 1 /\ Len(orders') = Len(orders) + 1
                /\ iteration' = iteration)]_vars

\* C2 witness: an order was attempted at a price equal to the target
C2_Witness ==
    /\ cur.gate = "hit" /\ cur.attempts = 1 /\ PriceAtTarget
    /\ orders[Len(orders)].live = price

\* C3: in an iteration whose fetched price is strictly greater than
\* TARGET_PRICE no order is attempted, whatever last_buy_time is.
C3_NoOrderAboveTarget ==
    (cur.reply = "price" /\ cur.exc = None /\ ~PriceAtOrBelowTarget)
        => (cur.attempts = 0 /\ pc # "place")

\* C3 witness: not on cooldown, price above the target, iteration over
C3_Witness ==
    /\ pc = "sleep" /\ cur.gate = "above" /\ ~PriceAtOrBelowTarget
    /\ Elapsed >= BUY_COOLDOWN /\ cur.attempts = 0

\* C4: after a successful buy, once now - last_buy_time >= BUY_COOLDOWN
\* (the boundary included) the iteration compares the price with the target
\* again and attempts an order when price <= TARGET_PRICE.
C4_RearmAfterCooldown ==
    [][(pc = "gate" /\ last_buy_time > 0 /\ Elapsed >= BUY_COOLDOWN)
        => IF PriceAtOrBelowTarget
           THEN pc' = "place" /\ cur'.gate = "hit"
           ELSE pc' = "sleep" /\ cur'.gate = "above"]_vars

\* C4 witness: a second order is about to be placed exactly BUY_COOLDOWN
\* seconds after the buy
C4_Witness ==
    /\ pc = "place" /\ last_buy_time > 0 /\ Elapsed = BUY_COOLDOWN
    /\ Len(orders) = 1 /\ prev.attempts = 1 /\ Truthy(prev.ret)

\* C5: when place_limit_buy returns an order id, main() sets last_buy_time
\* to the time it then reads and goes on to its sleep (it does not stop);
\* the iterations that follow within BUY_COOLDOWN seconds take the cooldown
\* branch.
C5_SuccessStartsCooldown ==
    [][/\ (pc = "place" /\ cur'.attempts = 1 /\ Truthy(cur'.ret))
            => (last_buy_time' = now' /\ pc' = "sleep")
       /\ (pc = "sleep" /\ Truthy(cur.ret) /\ pc' # "interrupted")
            => (pc' = "fetch" /\ last_buy_time' = last_buy_time)
       /\ (pc = "gate" /\ Truthy(prev.ret) /\ Elapsed < BUY_COOLDOWN)
            => (pc' = "sleep" /\ cur'.gate = "cooldown")]_vars

\* C5 witness: the iteration after a buy, with the price below the target,
\* took the cooldown branch
C5_Witness ==
    /\ Truthy(prev.ret) /\ cur.gate = "cooldown" /\ PriceBelowTarget
    /\ Len(orders) = 1 /\ last_buy_time >= orders[1].at

\* C6: when the exchange returns a failure result (success flag not set),
\* place_limit_buy returns None, last_buy_time is unchanged, the iteration
\* goes to its sleep, and the next evaluation of the gate with
\* price <= TARGET_PRICE attempts an order again.
C6_FailureKeepsWatching ==
    [][/\ (pc = "place" /\ cur'.order = "failure")
            => (cur'.ret = None /\ cur'.exc = None
                /\ last_buy_time' = last_buy_time /\ pc' = "sleep")
       /\ (pc = "gate" /\ prev.order = "failure" /\ PriceAtOrBelowTarget)
            => pc' = "place"]_vars

\* C6 witness: an order is attempted in the iteration after a failed one
C6_Witness ==
    /\ prev.order = "failure" /\ cur.attempts = 1 /\ Len(orders) = 2
    /\ orders[2].at - orders[1].at < BUY_COOLDOWN

\* C7: a quote without a price field makes get_current_price raise; main()
\* catches it: no order in that iteration, last_buy_time unchanged, the
\* iteration sleeps and the next one runs.
C7_MissingPriceIsCaught ==
    [][/\ (pc = "fetch" /\ cur'.reply = "no_price")
            => (cur'.exc = "KeyError" /\ pc' = "sleep" /\ orders' = orders
                /\ last_buy_time' = last_buy_time /\ cur'.attempts = 0)
       /\ (pc = "sleep" /\ cur.reply = "no_price" /\ pc' # "interrupted")
            => (pc' = "fetch" /\ iteration' = iteration + 1
                /\ orders' = orders /\ last_buy_time' = last_buy_time)]_vars

\* C7 witness: the iteration after one with a quote without price fetched
\* a price
C7_Witness ==
    /\ prev.reply = "no_price" /\ prev.exc = "KeyError" /\ prev.attempts = 0
    /\ cur.reply = "price" /\ cur.fetches = 1

\* C8: an exception raised while placing an order (the client raising, or
\* a success response without the order id) is caught: the iteration goes
\* to its sleep, which lasts at least POLL_INTERVAL, the next iteration
\* runs, nothing is carried over (last_buy_time is unchanged), and the next
\* gate that is open with price <= TARGET_PRICE attempts an order.
C8_OrderErrorIsCaught ==
    [][/\ (pc = "place" /\ cur'.order \in {"raise", "success_no_id"})
            => (cur'.exc # None /\ pc' = "sleep"
                /\ last_buy_time' = last_buy_time)
       /\ (pc = "sleep" /\ cur.exc # None /\ pc' # "interrupted")
            => (pc' = "fetch" /\ now' >= now + POLL_INTERVAL
                /\ last_buy_time' = last_buy_time)
       /\ (pc = "gate" /\ prev.exc # None /\ prev.attempts = 1
           /\ PriceAtOrBelowTarget)
            => pc' = "place"]_vars

\* C8 witness: an order is attempted in the iteration after one whose
\* attempt raised
C8_Witness ==
    /\ prev.attempts = 1 /\ prev.exc # None /\ cur.attempts = 1
    /\ Len(orders) = 2

\* C9: every order main() submits has limit price TARGET_PRICE ("90000.00")
\* and base quantity USD_TO_SPEND / TARGET_PRICE ("0.00111111"), whatever
\* the live price was.
C9_OrderAtTarget ==
    \A i \in 1..Len(orders) :
        /\ orders[i].request.limit_price
             = <<"9", "0", "0", "0", "0", ".", "0", "0">>
        /\ orders[i].request.base_size
             = <<"0", ".", "0", "0", "1", "1", "1", "1", "1", "1">>

\* C9 witness: an order triggered by a live price strictly below the target
C9_Witness ==
    \E i \in 1..Len(orders) :
        orders[i].live.n < TARGET_PRICE * orders[i].live.d

\* C10: for spend > 0 and limitPrice > 0, place_limit_buy sends base_size =
\* spend / limitPrice rendered with exactly 8 fractional digits and
\* limit_price rendered with exactly 2 fractional digits: each string is
\* digits, a point and exactly that many digits, and the number it denotes
\* is within half a unit of its last place of the value rendered.
\* Spend 100 at limit 100000 gives "0.00100000" and "100000.00".
RECURSIVE GCD(_, _)
GCD(a, b) == IF b = 0 THEN a ELSE GCD(b, a % b)

Reduced(x) == LET g == GCD(x.n, x.d) IN Rat(x.n \div g, x.d \div g)

Abs(v) == IF v < 0 THEN -v ELSE v

WithoutPoint(s) == SelectSeq(s, LAMBDA c : c # ".")

HasFractionDigits(s, k) ==
    /\ Len(s) >= k + 2
    /\ s[Len(s) - k] = "."
    /\ \A i \in 1..Len(s) : i # Len(s) - k => s[i] \in DigitSet
    /\ Len(s) > k + 2 => s[1] # "0"

Denotes(s, k, x) ==
    LET v == DigitsValue(WithoutPoint(s))
        r == Reduced(x)
    IN  2 * Abs(v * r.d - r.n * Pow10(k)) <= r.d

C10_FixedPrecision ==
    \A i \in 1..Len(orders) :
        LET req == orders[i].request
        IN  /\ HasFractionDigits(req.base_size, 8)
            /\ HasFractionDigits(req.limit_price, 2)
            /\ Denotes(req.base_size, 8, RatDiv(fmtIn.spend, fmtIn.limit_price))
            /\ Denotes(req.limit_price, 2, fmtIn.limit_price)
            /\ (fmtIn.spend = Rat(100, 1) /\ fmtIn.limit_price = Rat(100000, 1))
                => /\ req.base_size
                        = <<"0", ".", "0", "0", "1", "0", "0", "0", "0", "0">>
                   /\ req.limit_price
                        = <<"1", "0", "0", "0", "0", "0", ".", "0", "0">>

\* C10 witness: a request whose quantity had to be rounded up in the
\* eighth digit (2/3 is sent as 0.66666667)
C10_Witness ==
    /\ pc = "returned" /\ Len(orders) = 1
    /\ fmtIn.spend = Rat(2, 1) /\ fmtIn.limit_price = Rat(3, 1)
    /\ orders[1].request.base_size
         = <<"0", ".", "6", "6", "6", "6", "6", "6", "6", "7">>
    /\ orders[1].request.limit_price = <<"3", ".", "0", "0">>

\* C11 (as amended): main() has no single-shot mode.  No order attempt,
\* successful or failed, terminates the loop: after the attempt the
\* iteration sleeps and the next iteration begins, so a run can contain
\* more than one successful order.
C11_NoOrderTerminatesLoop ==
    [][/\ (pc = "place" /\ pc' # "interrupted") => pc' = "sleep"
       /\ (pc = "sleep" /\ cur.attempts = 1 /\ pc' # "interrupted")
            => (pc' = "fetch" /\ iteration' = iteration + 1)]_vars

\* C11 witness: a second successful order in the same run
C11_Witness ==
    /\ Len(orders) = 2 /\ Truthy(prev.ret) /\ Truthy(cur.ret)
    /\ pc = "sleep" /\ last_buy_time = now

\* C11 as stated: one successful order terminates the loop, that is, once
\* an order has succeeded the loop does nothing more than leave the
\* iteration of that order.
C11_SuccessTerminatesLoop ==
    last_buy_time # 0
        => (pc = "interrupted" \/ (pc = "sleep" /\ Truthy(cur.ret)))

\* C12: each call of place_limit_buy draws a new client_order_id: no two
\* requests of a run carry the same token, a re-attempt after a failed or
\* errored attempt included.
C12_FreshTokenPerRequest ==
    \A i, j \in 1..Len(orders) :
        i # j => orders[i].request.client_order_id
                    # orders[j].request.client_order_id

\* C12 witness: a re-attempt in the iteration after a failed or errored
\* attempt, with a token of its own
C12_Witness ==
    /\ Len(orders) = 2 /\ prev.order \in {"failure", "raise", "success_no_id"}
    /\ cur.attempts = 1
    /\ orders[1].request.client_order_id # orders[2].request.client_order_id

\* which startup configurations are credential failures: the JSON path is
\* given (a non-empty COINBASE_API_JSON_PATH) and the file does not exist, is
\* unreadable, is not JSON, or lacks a non-blank "id" or "privateKey"; or the
\* path is not given and COINBASE_API_KEY or COINBASE_API_SECRET is unset or ""
JsonPathGiven(e) ==
    e.COINBASE_API_JSON_PATH.t = "str" /\ Len(e.COINBASE_API_JSON_PATH.v) > 0

Blank(chars) == \A i \in 1..Len(chars) : chars[i] \in {" ", "\n", "\t"}

FieldMissingOrEmpty(file, field) ==
    \/ file.kind # "json_object"
    \/ field \notin DOMAIN file.data
    \/ Blank(file.data[field].v)

Provided(x) == x.t = "str" /\ Len(x.v) > 0

CredentialFailure(e) ==
    IF JsonPathGiven(e)
    THEN \/ e.file.kind \in {"absent", "unreadable", "not_json"}
         \/ FieldMissingOrEmpty(e.file, "id")
         \/ FieldMissingOrEmpty(e.file, "privateKey")
    ELSE ~(Provided(e.COINBASE_API_KEY) /\ Provided(e.COINBASE_API_SECRET))

C14_NameAndPrivateKeyAccepted ==
    ( /\ pc # "start"
      /\ JsonPathGiven(env)
      /\ env.file.kind = "json_object"
      /\ {"name", "privateKey"} \subseteq DOMAIN env.file.data ) =>
        /\ ~client.raised
        /\ client.api_key = env.file.data["name"].v
        /\ client.api_secret = env.file.data["privateKey"].v

\* C15: with no successful buy so far (last_buy_time still 0) the cooldown
\* gate does not block: an iteration that fetched a price <= TARGET_PRICE
\* and evaluated the gate took the order branch, and makes exactly one
\* attempt, whatever the clock showed at startup.
C15_FirstHitIsNotBlocked ==
    (last_buy_time = 0 /\ cur.gate # "none" /\ PriceAtOrBelowTarget)
        => (cur.gate = "hit" /\ cur.attempts <= 1
            /\ (pc = "sleep" => cur.attempts = 1))

\* C16: any two orders the exchange accepted in one run are at least
\* BUY_COOLDOWN seconds apart, whatever the exchange answered.
C16_AcceptedOrdersApart ==
    \A i, j \in 1..Len(orders) :
        (i < j /\ orders[i].accepted /\ orders[j].accepted)
            => orders[j].at - orders[i].at >= BUY_COOLDOWN

\* C17: the loop is one sequential flow: an iteration makes at most one
\* price fetch and then at most one order attempt, an attempt only after
\* the fetch of the same iteration succeeded, and a request is only issued
\* when the one before it has returned or raised (the flow is at exactly
\* one position, and all requests of the run are counted one per call).
C17_SingleSequentialFlow ==
    /\ cur.fetches <= 1 /\ cur.attempts <= 1
    /\ pc = "fetch" => (cur.fetches = 0 /\ cur.attempts = 0)
    /\ pc = "gate" => (cur.fetches = 1 /\ cur.attempts = 0)
    /\ (pc = "place" \/ cur.attempts = 1)
        => (cur.fetches = 1 /\ cur.reply = "price" /\ cur.gate = "hit")
    /\ pc = "place" => (cur.attempts = 0 /\ cur.exc = None)
    /\ Len(orders) <= iteration

\* C17 witness: an iteration that fetched once and attempted once
C17_Witness ==
    /\ pc = "sleep" /\ cur.fetches = 1 /\ cur.attempts = 1
    /\ cur.order = "success_id" /\ Len(orders) = 1

\* C18: every iteration ends with the sleep of line 149 on every path
\* (price above target, on cooldown, order succeeded, order failed,
\* exception caught): no step leads from inside an iteration to a new
\* fetch, the only step that begins an iteration is the sleep, it lasts at
\* least POLL_INTERVAL, and it is taken once per iteration.
C18_SleepEndsEveryIteration ==
    [][/\ (pc \in {"fetch", "gate", "place"} /\ pc' # "interrupted")
            => (pc' \in {"gate", "place", "sleep"} /\ pc' # pc
                /\ iteration' = iteration /\ cur'.fetches <= 1)
       /\ (pc = "sleep" /\ pc' # "interrupted")
            => (pc' = "fetch" /\ iteration' = iteration + 1
                /\ now' >= now + POLL_INTERVAL /\ cur'.fetches = 0)
       /\ iteration' # iteration => pc = "sleep"]_vars

\* C18 witness: the iteration after one whose fetch raised began
\* POLL_INTERVAL seconds later at the earliest, and fetched again
C18_Witness ==
    /\ prev.exc # None /\ prev.attempts = 0 /\ prev.fetches = 1
    /\ cur.fetches = 1 /\ iteration = 2 /\ now \in {n + POLL_INTERVAL : n \in StartClocks}

\* C19: a KeyboardInterrupt raised during the price fetch, the order call
\* or the sleep is not caught by line 146: it ends the loop; apart from it
\* the loop has no terminal state: at every other position a step of the
\* loop is possible.
C19_InterruptEndsLoop ==
    /\ cur.exc = "KeyboardInterrupt" <=> pc = "interrupted"
    /\ pc = "interrupted" => ~ENABLED Next
    /\ pc # "interrupted"
        => /\ pc \in {"fetch", "gate", "place", "sleep"}
           /\ iteration <= MaxIter
                => ENABLED (\/ \E resp \in ProductResponses : Fetch(resp)
                            \/ Gate
                            \/ \E resp \in OrderResponses, delay \in NetDelays :
                                  Place(resp, delay)
                            \/ \E extra \in SleepExtras : Sleep(extra))

\* C19 witness: the loop was left by an interrupt during the order call
C19_Witness ==
    /\ pc = "interrupted" /\ cur.gate = "hit" /\ cur.attempts = 0
    /\ cur.exc = "KeyboardInterrupt"

====
